---- MODULE Spec2Model ----
(***************************************************************************)
(* Browser-side recorder of med_transcribe: recorder.js and modal.js.      *)
(*                                                                         *)
(* The page is one event loop.  Every action below is one task of that     *)
(* loop: a click handler up to its first await, the continuation of an     *)
(* await, an audio-processing callback, an interval tick, or the           *)
(* continuation chain of a fetch.  Objects the handlers create (streams,   *)
(* script processors, encoders, interval timers) are numbered in creation  *)
(* order; 0 stands for the JavaScript value undefined.                     *)
(***************************************************************************)
EXTENDS Integers, Sequences, FiniteSets, TLC

----------------------------------------------------------------------------
(* Bounds of the exploration *)

\* Spec, the primary capture session on its own: start clicks, encodeBuffer
\* calls per chunk buffer, interval ticks per counter
MaxStarts == 2
MaxChunks == 1
MaxTicks == 1

\* SpecBuffer, the chunk buffer of the primary session: start clicks,
\* encodeBuffer calls per chunk buffer
BufStarts == 2
BufChunks == 2

\* SpecTimer, the elapsed-time counter: start clicks, interval ticks per counter
TimerStarts == 1
TimerTicks == 6000

\* SpecCapture, the two capture sessions side by side: start clicks per
\* session, encodeBuffer calls per chunk buffer, interval ticks per counter
BothStarts == 1
BothChunks == 1
BothTicks == 1

\* SpecPage, the exchanges with the server: start clicks per session, edit
\* requests in flight
PageStarts == 1
PageSubmits == 1

\* SpecModal, the modal controller: calls and clicks kept in the trace
MaxModalEvents == 3

\* SpecMix, the origin of the chunks: start clicks, encodeBuffer calls per
\* chunk buffer
MixStarts == 2
MixChunks == 3

\* SpecEdit, the note edits: start clicks, interval ticks per counter, edit
\* requests in flight
EditStarts == 1
EditTicks == 1
EditSubmits == 2

\* SpecPcm, the sample conversion of the audio callback: samples per block
MaxSamples == 2

----------------------------------------------------------------------------
(* Inputs the environment supplies *)

\* getTimezoneOffset() results: UTC+2, UTC-5
TzOffsets == {0 - 120, 300}

\* new Date() readings of the stop handler: getFullYear, getMonth (0-based),
\* getDate, getHours, getMinutes, getSeconds
Dates ==
    { [year |-> 2024, month |-> 0,  date |-> 5,  hours |-> 9,  minutes |-> 7,  seconds |-> 3],
      [year |-> 2026, month |-> 10, date |-> 30, hours |-> 23, minutes |-> 59, seconds |-> 58] }

\* what lamejs encodeBuffer may return for one 4096-sample block
EncodeOutputs == { <<>>, <<1>>, <<2, 0 - 3>> }

\* what lamejs flush may return
FlushOutputs == { <<>>, <<9>> }

\* Float32 samples of an input block: num / SampleDen, or NaN
SampleDen == 65536
PcmNumerators ==
    { 0 - 98304, 0 - 65536, 0 - 65535, 0 - 32768, 0 - 1, 0,
      1, 16384, 32768, 65535, 65536, 98304 }
Samples ==
    { [kind |-> "num", num |-> n] : n \in PcmNumerators }
      \cup { [kind |-> "NaN", num |-> 0] }

\* arguments of textModal, and the targets of a click: the modal element
\* (its backdrop) or any other element
ModalTexts == {"x", "Please wait for transcription to complete..."}
ClickTargets == {"modal", "other"}

\* free identifiers of recorder.js that only the hosting page can declare
FreeGlobals == {"token", "formData"}

\* the object a page-declared global formData names: recorder.js never
\* assigns it, so it holds none of the stop handler's entries
GlobalFormData == <<>>

\* the smaller input sets SpecTimer, SpecCapture and SpecPage draw from
PageDates == { CHOOSE d \in Dates : d.year = 2024 }
PageEncodeOutputs == { <<>>, <<1>> }
PageFlushOutputs == { <<9>> }

\* parsed JSON bodies the server may answer with; ok = FALSE is a body
\* without the context the handler reads (an error object)
NoteResponses ==
    { [ok |-> TRUE, filename |-> "f1", transcript |-> "t1", formatted_text |-> "<p>n1</p>"],
      [ok |-> FALSE, filename |-> "", transcript |-> "", formatted_text |-> ""] }
InstructionResponses ==
    { [ok |-> TRUE, transcript |-> "hi"], [ok |-> FALSE, transcript |-> ""] }

----------------------------------------------------------------------------
(* JavaScript built-ins used by the handlers *)

Digit(d) ==
    CASE d = 0 -> "0" [] d = 1 -> "1" [] d = 2 -> "2" [] d = 3 -> "3"
      [] d = 4 -> "4" [] d = 5 -> "5" [] d = 6 -> "6" [] d = 7 -> "7"
      [] d = 8 -> "8" [] d = 9 -> "9"

RECURSIVE NatString(_)
NatString(n) ==
    IF n < 10 THEN Digit(n) ELSE NatString(n \div 10) \o Digit(n % 10)

\* String(n), and the string a number becomes in a template literal, an
\* input's value or a FormData entry
String(n) == IF n < 0 THEN "-" \o NatString(0 - n) ELSE NatString(n)

RECURSIVE padStart(_, _, _)
padStart(s, targetLength, padString) ==
    IF Len(s) >= targetLength THEN s
    ELSE padStart(padString \o s, targetLength, padString)

\* one element stored into an Int8Array: wrapped to 8 bits, signed
ToInt8(b) == ((b + 128) % 256) - 128

\* Math.min(1, x) and Math.max(-1, x)
\* Math.min(1, x) and Math.max(-1, x): NaN if x is NaN
MathMin1(x) ==
    IF x.kind = "NaN" THEN x
    ELSE IF x.num > SampleDen THEN [kind |-> "num", num |-> SampleDen] ELSE x

MathMaxNeg1(x) ==
    IF x.kind = "NaN" THEN x
    ELSE IF x.num < 0 - SampleDen THEN [kind |-> "num", num |-> 0 - SampleDen] ELSE x

\* the store of the number n / d into an Int16Array element: the fraction is
\* dropped (toward zero) and the integer wraps to 16 bits
Trunc(n, d) == IF n >= 0 THEN n \div d ELSE (n + d - 1) \div d
ToInt16(k) == ((k + 32768) % 65536) - 32768

Int8Array(buf) == [i \in 1..Len(buf) |-> ToInt8(buf[i])]

\* new Blob(parts): the parts' bytes, concatenated in order
RECURSIVE Blob(_)
Blob(parts) ==
    IF parts = <<>> THEN <<>> ELSE Head(parts) \o Blob(Tail(parts))

\* FormData.append(name, value [, filename])
FormDataAppend(fd, name, value) == Append(fd, <<name, value>>)
FormDataAppendFile(fd, name, blob, filename) == Append(fd, <<name, blob, filename>>)

----------------------------------------------------------------------------
(* recorder.js: helpers *)

\* formatTime with the zero padding forgotten
formatTimeNoPad(sec) ==
    LET minutes == sec \div 60
        seconds == sec % 60
    IN  String(minutes) \o ":" \o String(seconds)

formatTime(sec) ==
    LET minutes == sec \div 60
        seconds == sec % 60
    IN  padStart(String(minutes), 2, "0") \o ":" \o padStart(String(seconds), 2, "0")

\* the local datetime string built by stopBtn.onclick
\* a conversion that scales both signs by 0x8000
floatTo16BitPCMSymmetric(block) ==
    [i \in 1..Len(block) |->
        LET s == MathMaxNeg1(MathMin1(block[i]))
        IN  IF s.kind = "NaN" THEN 0 ELSE ToInt16(Trunc(s.num * 32768, SampleDen))]

floatTo16BitPCM(block) ==
    [i \in 1..Len(block) |->
        LET s == MathMaxNeg1(MathMin1(block[i]))
        IN  IF s.kind = "NaN"
            THEN 0
            ELSE ToInt16(Trunc(IF s.num < 0 THEN s.num * 32768 ELSE s.num * 32767,
                               SampleDen))]

formattedDateTime(currentDate) ==
    LET year    == currentDate.year
        month   == padStart(String(currentDate.month + 1), 2, "0")
        day     == padStart(String(currentDate.date), 2, "0")
        hours   == padStart(String(currentDate.hours), 2, "0")
        minutes == padStart(String(currentDate.minutes), 2, "0")
        seconds == padStart(String(currentDate.seconds), 2, "0")
    IN  String(year) \o month \o day \o hours \o minutes \o seconds

\* the FormData built by stopBtn.onclick
stopFormData(blob, name, tzOffset) ==
    LET f1 == FormDataAppendFile(<<>>, "file", blob, name \o ".mp3")
        f2 == FormDataAppend(f1, "new_file", "true")
        f3 == FormDataAppend(f2, "local_datetime", name)
    IN  FormDataAppend(f3, "timezone_offset", String(tzOffset))

WaitTranscription == "Please wait for transcription to complete..."
WaitInstruction == "Please wait for voice instruction transcription to complete..."

\* the FormData built by voiceChatStopBtn.onclick
chatStopFormData(blob) ==
    FormDataAppend(FormDataAppendFile(<<>>, "file", blob, "instruction_audio.mp3"),
                   "instruction_audio", "true")

\* the FormData built by editSoapNote and editSoapNoteWithInstruction: the
\* form's own fields, then the filename and the distinguishing key
editFormData(fields, filename, key) ==
    FormDataAppend(FormDataAppend(fields, "filename", filename), key, "true")

TranscribeUrl == "{% url 'transcriber:api_basic_transcribe' %}"
UpdateSoapUrl == "{% url 'transcriber:api_update_soap'%}"

----------------------------------------------------------------------------
VARIABLES
    \* the hosting page
    globals,              \* which of FreeGlobals the page's global scope declares
    timezoneOffset, timezoneOffsetInput,
    \* primary capture session (recorder.js 75-79, 99-100)
    audioContext, micStream, scriptProcessor, mp3Encoder, mp3Data,
    timerInterval, seconds,
    startPending,         \* startBtn.onclick calls suspended at their await
    connected,            \* script processors still connected to a destination
    liveStreams,          \* streams whose tracks have not been stopped
    activeTimers,         \* intervals set and not cleared
    encoded,              \* encodeBuffer results since the buffer was last reset
    startBtnDisabled, stopBtnDisabled, timerDisplay,
    \* what the primary stop handler leaves behind
    audioPlaybackSrc, downloadLink, localDatetimeInput,
    currentDate,          \* the Date the last stop handler read
    formData,             \* the FormData the last stop handler built
    \* instruction capture session (recorder.js 82-86)
    chatAudioContext, chatMicStream, chatScriptProcessor, chatMp3Encoder, chatMp3Data,
    chatStartPending, chatConnected, chatLiveStreams, chatEncoded,
    voiceChatStartBtn, voiceChatStopBtn,
    \* modal.js
    modalDisplay, modalContent,
    modalTrace,           \* modal.js calls and window clicks so far (kept by SpecModal only)
    \* the last audio callback's block and its conversion (kept by SpecPcm only)
    input, int16,
    \* the forms and the editor
    noTranscriptionMessageDisplay, formContainerDisplay,
    reformatFormId,       \* "reformat", "reformat_edited" or "none" (neither form)
    submitButtonName, reformatFilename, reformatTranscript,
    iframeBody, chatInput,
    iframePresent, observerConnected,
    submitListeners,      \* how many times the observer callback added its submit listeners
    defaultPrevented,     \* event.defaultPrevented of the last submit event
    loadingOverlayDisplay,
    \* fetch requests sent and not yet settled, oldest first
    inflight

pageVars == <<globals, timezoneOffset, timezoneOffsetInput>>
primaryVars ==
    <<audioContext, micStream, scriptProcessor, mp3Encoder, mp3Data,
      timerInterval, seconds, startPending, connected, liveStreams,
      activeTimers, encoded, startBtnDisabled, stopBtnDisabled, timerDisplay>>
stopOutVars == <<audioPlaybackSrc, downloadLink, localDatetimeInput, currentDate, formData>>
chatVars ==
    <<chatAudioContext, chatMicStream, chatScriptProcessor, chatMp3Encoder, chatMp3Data,
      chatStartPending, chatConnected, chatLiveStreams, chatEncoded,
      voiceChatStartBtn, voiceChatStopBtn>>
modalVars == <<modalDisplay, modalContent>>
formVars ==
    <<noTranscriptionMessageDisplay, formContainerDisplay, reformatFormId,
      submitButtonName, reformatFilename, reformatTranscript, iframeBody, chatInput>>
editorVars == <<iframePresent, observerConnected, submitListeners>>

\* the state of the page's scripts
programVars ==
    <<pageVars, primaryVars, stopOutVars, chatVars, modalVars, formVars,
      editorVars, loadingOverlayDisplay, inflight, defaultPrevented>>

\* what single specifications keep beside the state of the scripts
pcmVars == <<input, int16>>
traceVars == <<modalTrace, pcmVars>>
auxVars == <<traceVars, defaultPrevented>>

vars == <<pageVars, primaryVars, stopOutVars, chatVars, modalVars, formVars,
          editorVars, loadingOverlayDisplay, inflight, defaultPrevented,
          modalTrace, input, int16>>

NoDate == [year |-> 0, month |-> 0, date |-> 0, hours |-> 0, minutes |-> 0, seconds |-> 0]

RemoveAt(s, i) == SubSeq(s, 1, i - 1) \o SubSeq(s, i + 1, Len(s))

----------------------------------------------------------------------------
(* modal.js *)

textModal(content) ==
    /\ modalDisplay' = "block"
    /\ modalContent' = content

staticModal ==
    /\ modalDisplay' = "block"
    /\ UNCHANGED modalContent

\* a closeModal that flips the display
closeModalToggle ==
    /\ modalDisplay' = IF modalDisplay = "none" THEN "block" ELSE "none"
    /\ UNCHANGED modalContent

closeModal ==
    /\ modalDisplay' = "none"
    /\ UNCHANGED modalContent

\* a window.onclick that hides the modal whatever the target
WindowClickAnywhere(target) ==
    /\ modalDisplay' = "none"
    /\ UNCHANGED <<modalContent, pageVars, primaryVars, stopOutVars, chatVars,
                   formVars, editorVars, loadingOverlayDisplay, inflight>>

\* window.onclick: a click anywhere on the page bubbles to the window
WindowClick(target) ==
    /\ IF target = "modal"
       THEN modalDisplay' = "none"
       ELSE UNCHANGED modalDisplay
    /\ UNCHANGED <<modalContent, pageVars, primaryVars, stopOutVars, chatVars,
                   formVars, editorVars, loadingOverlayDisplay, inflight>>

----------------------------------------------------------------------------
(* recorder.js: the MutationObserver *)

\* an observer callback that stays connected
ObserverCallbackNoDisconnect ==
    IF observerConnected /\ iframePresent'
    THEN /\ UNCHANGED observerConnected
         /\ submitListeners' = submitListeners + 1
    ELSE UNCHANGED <<observerConnected, submitListeners>>

\* the observer callback, run after a task that changed the child list of
\* an element of the body
ObserverCallback ==
    IF observerConnected /\ iframePresent'
    THEN /\ observerConnected' = FALSE
         /\ submitListeners' = submitListeners + 1
    ELSE UNCHANGED <<observerConnected, submitListeners>>

\* a task that changes the child list of a body element, the editor aside
Mutation ==
    /\ UNCHANGED iframePresent
    /\ ObserverCallback

\* the rich-text editor puts its iframe into the page
IframeInserted ==
    /\ ~iframePresent
    /\ iframePresent' = TRUE
    /\ ObserverCallback
    /\ UNCHANGED <<pageVars, primaryVars, stopOutVars, chatVars, modalVars,
                   formVars, loadingOverlayDisplay, inflight>>

----------------------------------------------------------------------------
(* recorder.js: page load *)

InitHandlers ==
    /\ audioContext = 0 /\ micStream = 0 /\ scriptProcessor = 0 /\ mp3Encoder = 0
    /\ mp3Data = <<>>
    /\ timerInterval = 0 /\ seconds = 0
    /\ startPending = 0
    /\ connected = {} /\ liveStreams = {} /\ activeTimers = {}
    /\ encoded = <<>>
    /\ startBtnDisabled = FALSE /\ stopBtnDisabled = TRUE
    /\ timerDisplay = ""
    /\ audioPlaybackSrc = <<>>
    /\ downloadLink = [display |-> "none", href |-> <<>>, download |-> ""]
    /\ localDatetimeInput = ""
    /\ timezoneOffsetInput = String(0 - timezoneOffset)
    /\ currentDate = NoDate
    /\ formData = <<>>
    /\ chatAudioContext = 0 /\ chatMicStream = 0 /\ chatScriptProcessor = 0
    /\ chatMp3Encoder = 0 /\ chatMp3Data = <<>>
    /\ chatStartPending = 0
    /\ chatConnected = {} /\ chatLiveStreams = {}
    /\ chatEncoded = <<>>
    /\ voiceChatStartBtn = [disabled |-> FALSE, display |-> "inline-flex"]
    /\ voiceChatStopBtn = [disabled |-> TRUE, display |-> "none"]
    /\ modalDisplay = "none" /\ modalContent = ""
    /\ modalTrace = <<>>
    /\ input = <<>> /\ int16 = <<>>
    /\ noTranscriptionMessageDisplay = "block"
    /\ formContainerDisplay = "none"
    /\ submitButtonName = reformatFormId
    /\ reformatFilename = "" /\ reformatTranscript = ""
    /\ iframeBody = "" /\ chatInput = ""
    /\ iframePresent = FALSE /\ observerConnected = TRUE /\ submitListeners = 0
    /\ defaultPrevented = FALSE
    /\ loadingOverlayDisplay = "none"
    /\ inflight = <<>>

\* the page as the primary capture session meets it
Init ==
    /\ globals \in SUBSET FreeGlobals
    /\ timezoneOffset \in TzOffsets
    /\ reformatFormId = "reformat"
    /\ InitHandlers

\* one such page
InitOne ==
    /\ globals = FreeGlobals
    /\ timezoneOffset = 300
    /\ reformatFormId = "reformat"
    /\ InitHandlers

\* the page with either identity of the transcript form, or neither, and
\* with the free identifiers of the primary request declared or not (one
\* missing name has the effect of both missing: the call or the read throws)
InitPage ==
    /\ globals \in {{}, FreeGlobals}
    /\ timezoneOffset = 300
    /\ reformatFormId \in {"reformat", "reformat_edited", "none"}
    /\ InitHandlers

----------------------------------------------------------------------------
(* recorder.js: primary capture session *)

\* a start handler that switches the controls before the await
StartClickSwitching(maxStarts) ==
    /\ ~startBtnDisabled
    /\ audioContext < maxStarts
    /\ audioContext' = audioContext + 1
    /\ startPending' = startPending + 1
    /\ startBtnDisabled' = TRUE
    /\ stopBtnDisabled' = FALSE
    /\ UNCHANGED <<micStream, scriptProcessor, mp3Encoder, mp3Data, timerInterval,
                   seconds, connected, liveStreams, activeTimers, encoded, timerDisplay>>
    /\ UNCHANGED <<pageVars, stopOutVars, chatVars, modalVars, formVars,
                   editorVars, loadingOverlayDisplay, inflight>>

\* startBtn.onclick up to the await of getUserMedia
StartClick(maxStarts) ==
    /\ ~startBtnDisabled
    /\ audioContext < maxStarts
    /\ audioContext' = audioContext + 1
    /\ startPending' = startPending + 1
    /\ UNCHANGED <<micStream, scriptProcessor, mp3Encoder, mp3Data, timerInterval,
                   seconds, connected, liveStreams, activeTimers, encoded,
                   startBtnDisabled, stopBtnDisabled, timerDisplay>>
    /\ UNCHANGED <<pageVars, stopOutVars, chatVars, modalVars, formVars,
                   editorVars, loadingOverlayDisplay, inflight>>

\* getUserMedia resolves: the rest of startBtn.onclick
StartGranted ==
    /\ startPending > 0
    /\ LET id == micStream + 1 IN
        /\ micStream' = id
        /\ scriptProcessor' = id
        /\ mp3Encoder' = id
        /\ mp3Data' = <<>>
        /\ encoded' = <<>>
        /\ connected' = connected \cup {id}
        /\ liveStreams' = liveStreams \cup {id}
        /\ startBtnDisabled' = TRUE
        /\ stopBtnDisabled' = FALSE
        /\ seconds' = 0
        /\ timerDisplay' = "Recording: 00:00"
        /\ timerInterval' = id
        /\ activeTimers' = activeTimers \cup {id}
    /\ startPending' = startPending - 1
    /\ Mutation
    /\ UNCHANGED audioContext
    /\ UNCHANGED <<pageVars, stopOutVars, chatVars, modalVars, formVars,
                   loadingOverlayDisplay, inflight>>

\* getUserMedia rejects: the async handler ends in an unhandled rejection
StartDenied ==
    /\ startPending > 0
    /\ startPending' = startPending - 1
    /\ UNCHANGED <<audioContext, micStream, scriptProcessor, mp3Encoder, mp3Data,
                   timerInterval, seconds, connected, liveStreams, activeTimers,
                   encoded, startBtnDisabled, stopBtnDisabled, timerDisplay>>
    /\ UNCHANGED <<pageVars, stopOutVars, chatVars, modalVars, formVars,
                   editorVars, loadingOverlayDisplay, inflight>>

\* onaudioprocess assigning the new chunk where the handler pushes it
AudioProcessOverwrite(p, maxChunks, outputs) ==
    /\ p \in connected
    /\ Len(encoded) < maxChunks
    /\ \E mp3buf \in outputs :
        /\ mp3Data' = IF Len(mp3buf) > 0 THEN <<Int8Array(mp3buf)>> ELSE mp3Data
        /\ encoded' = Append(encoded, mp3buf)
    /\ UNCHANGED <<audioContext, micStream, scriptProcessor, mp3Encoder,
                   timerInterval, seconds, startPending, connected, liveStreams,
                   activeTimers, startBtnDisabled, stopBtnDisabled, timerDisplay>>
    /\ UNCHANGED <<pageVars, stopOutVars, chatVars, modalVars, formVars,
                   editorVars, loadingOverlayDisplay, inflight>>

\* onaudioprocess of script processor p; the closure reads the variables
\* mp3Encoder and mp3Data as they are when it runs
AudioProcess(p, maxChunks, outputs) ==
    /\ p \in connected
    /\ Len(encoded) < maxChunks
    /\ \E mp3buf \in outputs :
        /\ mp3Data' = IF Len(mp3buf) > 0 THEN Append(mp3Data, Int8Array(mp3buf)) ELSE mp3Data
        /\ encoded' = Append(encoded, mp3buf)
    /\ UNCHANGED <<audioContext, micStream, scriptProcessor, mp3Encoder,
                   timerInterval, seconds, startPending, connected, liveStreams,
                   activeTimers, startBtnDisabled, stopBtnDisabled, timerDisplay>>
    /\ UNCHANGED <<pageVars, stopOutVars, chatVars, modalVars, formVars,
                   editorVars, loadingOverlayDisplay, inflight>>

\* the setInterval callback of timer t
TimerTick(t, maxTicks) ==
    /\ t \in activeTimers
    /\ seconds < maxTicks
    /\ seconds' = seconds + 1
    /\ timerDisplay' = "Recording: " \o formatTime(seconds')
    /\ Mutation
    /\ UNCHANGED <<audioContext, micStream, scriptProcessor, mp3Encoder, mp3Data,
                   timerInterval, startPending, connected, liveStreams,
                   activeTimers, encoded, startBtnDisabled, stopBtnDisabled>>
    /\ UNCHANGED <<pageVars, stopOutVars, chatVars, modalVars, formVars,
                   loadingOverlayDisplay, inflight>>

\* the request fetchTranscription(url) sends: its body is the formData of the
\* global scope (the function has no such parameter or local); the read
\* throws a ReferenceError when the page declares no such global
fetchTranscription(url) ==
    IF "formData" \in globals
    THEN inflight' = Append(inflight, [kind |-> "transcribe", url |-> url,
                                       body |-> GlobalFormData])
    ELSE UNCHANGED inflight

\* stopBtn.onclick; its last statement reads the free identifier token and
\* throws a ReferenceError when the page declares no such global
StopClick(flushes, dates) ==
    /\ ~stopBtnDisabled
    /\ \E flush \in flushes, now \in dates :
        LET data == IF Len(flush) > 0 THEN Append(mp3Data, Int8Array(flush)) ELSE mp3Data
            blob == Blob(data)
            name == formattedDateTime(now)
        IN  /\ connected' = connected \ {scriptProcessor}
            /\ liveStreams' = liveStreams \ {micStream}
            /\ mp3Data' = data
            /\ audioPlaybackSrc' = blob
            /\ downloadLink' = [display |-> "block", href |-> blob, download |-> name \o ".mp3"]
            /\ startBtnDisabled' = FALSE
            /\ stopBtnDisabled' = TRUE
            /\ currentDate' = now
            /\ localDatetimeInput' = name
            /\ activeTimers' = activeTimers \ {timerInterval}
            /\ timerDisplay' = timerDisplay \o " (Stopped)"
            /\ formData' = stopFormData(blob, name, timezoneOffset)
            /\ textModal(WaitTranscription)
            /\ IF "token" \in globals
               THEN fetchTranscription(<<"blob", blob>>)
               ELSE UNCHANGED inflight
    /\ Mutation
    /\ UNCHANGED <<audioContext, micStream, scriptProcessor, mp3Encoder,
                   timerInterval, seconds, startPending, encoded>>
    /\ UNCHANGED <<pageVars, chatVars, formVars, loadingOverlayDisplay>>

----------------------------------------------------------------------------
(* recorder.js: instruction capture session *)

\* voiceChatStartBtn.onclick up to the await of getUserMedia
ChatStartClick(maxStarts) ==
    /\ ~voiceChatStartBtn.disabled
    /\ chatAudioContext < maxStarts
    /\ chatAudioContext' = chatAudioContext + 1
    /\ chatStartPending' = chatStartPending + 1
    /\ UNCHANGED <<chatMicStream, chatScriptProcessor, chatMp3Encoder, chatMp3Data,
                   chatConnected, chatLiveStreams, chatEncoded,
                   voiceChatStartBtn, voiceChatStopBtn>>
    /\ UNCHANGED <<pageVars, primaryVars, stopOutVars, modalVars, formVars,
                   editorVars, loadingOverlayDisplay, inflight>>

\* the rest of voiceChatStartBtn.onclick resetting the primary session's
\* buffer where the handler resets chatMp3Data
ChatStartGrantedShared ==
    /\ chatStartPending > 0
    /\ LET id == chatMicStream + 1 IN
        /\ chatMicStream' = id
        /\ chatScriptProcessor' = id
        /\ chatMp3Encoder' = id
        /\ mp3Data' = <<>>
        /\ chatEncoded' = <<>>
        /\ chatConnected' = chatConnected \cup {id}
        /\ chatLiveStreams' = chatLiveStreams \cup {id}
        /\ voiceChatStartBtn' = [disabled |-> TRUE, display |-> "none"]
        /\ voiceChatStopBtn' = [disabled |-> FALSE, display |-> "inline-flex"]
    /\ chatStartPending' = chatStartPending - 1
    /\ UNCHANGED <<chatAudioContext, chatMp3Data>>
    /\ UNCHANGED <<audioContext, micStream, scriptProcessor, mp3Encoder,
                   timerInterval, seconds, startPending, connected, liveStreams,
                   activeTimers, encoded, startBtnDisabled, stopBtnDisabled, timerDisplay>>
    /\ UNCHANGED <<pageVars, stopOutVars, modalVars, formVars,
                   editorVars, loadingOverlayDisplay, inflight>>

\* getUserMedia resolves: the rest of voiceChatStartBtn.onclick
ChatStartGranted ==
    /\ chatStartPending > 0
    /\ LET id == chatMicStream + 1 IN
        /\ chatMicStream' = id
        /\ chatScriptProcessor' = id
        /\ chatMp3Encoder' = id
        /\ chatMp3Data' = <<>>
        /\ chatEncoded' = <<>>
        /\ chatConnected' = chatConnected \cup {id}
        /\ chatLiveStreams' = chatLiveStreams \cup {id}
        /\ voiceChatStartBtn' = [disabled |-> TRUE, display |-> "none"]
        /\ voiceChatStopBtn' = [disabled |-> FALSE, display |-> "inline-flex"]
    /\ chatStartPending' = chatStartPending - 1
    /\ UNCHANGED chatAudioContext
    /\ UNCHANGED <<pageVars, primaryVars, stopOutVars, modalVars, formVars,
                   editorVars, loadingOverlayDisplay, inflight>>

\* getUserMedia rejects: the async handler ends in an unhandled rejection
ChatStartDenied ==
    /\ chatStartPending > 0
    /\ chatStartPending' = chatStartPending - 1
    /\ UNCHANGED <<chatAudioContext, chatMicStream, chatScriptProcessor, chatMp3Encoder,
                   chatMp3Data, chatConnected, chatLiveStreams, chatEncoded,
                   voiceChatStartBtn, voiceChatStopBtn>>
    /\ UNCHANGED <<pageVars, primaryVars, stopOutVars, modalVars, formVars,
                   editorVars, loadingOverlayDisplay, inflight>>

\* onaudioprocess of instruction script processor p
ChatAudioProcess(p, maxChunks, outputs) ==
    /\ p \in chatConnected
    /\ Len(chatEncoded) < maxChunks
    /\ \E mp3buf \in outputs :
        /\ chatMp3Data' = IF Len(mp3buf) > 0 THEN Append(chatMp3Data, Int8Array(mp3buf))
                          ELSE chatMp3Data
        /\ chatEncoded' = Append(chatEncoded, mp3buf)
    /\ UNCHANGED <<chatAudioContext, chatMicStream, chatScriptProcessor, chatMp3Encoder,
                   chatStartPending, chatConnected, chatLiveStreams,
                   voiceChatStartBtn, voiceChatStopBtn>>
    /\ UNCHANGED <<pageVars, primaryVars, stopOutVars, modalVars, formVars,
                   editorVars, loadingOverlayDisplay, inflight>>

\* voiceChatStopBtn.onclick, up to and including the call of fetch
ChatStopClick(flushes) ==
    /\ ~voiceChatStopBtn.disabled
    /\ \E flush \in flushes :
        LET data == IF Len(flush) > 0 THEN Append(chatMp3Data, Int8Array(flush))
                    ELSE chatMp3Data
            blob == Blob(data)
        IN  /\ chatConnected' = chatConnected \ {chatScriptProcessor}
            /\ chatLiveStreams' = chatLiveStreams \ {chatMicStream}
            /\ chatMp3Data' = data
            /\ voiceChatStartBtn' = [disabled |-> FALSE, display |-> "inline-flex"]
            /\ voiceChatStopBtn' = [disabled |-> TRUE, display |-> "none"]
            /\ textModal(WaitInstruction)
            /\ inflight' = Append(inflight, [kind |-> "instruction",
                                             url |-> <<"url", TranscribeUrl>>,
                                             body |-> chatStopFormData(blob)])
    /\ Mutation
    /\ UNCHANGED <<chatAudioContext, chatMicStream, chatScriptProcessor, chatMp3Encoder,
                   chatStartPending, chatEncoded>>
    /\ UNCHANGED <<pageVars, primaryVars, stopOutVars, formVars, loadingOverlayDisplay>>

----------------------------------------------------------------------------
(* recorder.js: the continuations of the fetch calls *)

\* request i leaves the requests in flight
Settle(i, kind) ==
    /\ i \in 1..Len(inflight)
    /\ inflight[i].kind = kind
    /\ inflight' = RemoveAt(inflight, i)

\* the catch of fetchTranscription closing the modal as well
TranscribeFailedClosing(i) ==
    /\ Settle(i, "transcribe")
    /\ closeModal
    /\ UNCHANGED <<pageVars, primaryVars, stopOutVars, chatVars, formVars,
                   editorVars, loadingOverlayDisplay>>

\* fetchTranscription: fetch or response.json() rejects; the catch logs
TranscribeFailed(i) ==
    /\ Settle(i, "transcribe")
    /\ UNCHANGED <<pageVars, primaryVars, stopOutVars, chatVars, modalVars, formVars,
                   editorVars, loadingOverlayDisplay>>

\* a then callback that populates the form it finds without renaming it
TranscribeAppliedNoRename(i, data) ==
    /\ Settle(i, "transcribe")
    /\ noTranscriptionMessageDisplay' = "none"
    /\ IF reformatFormId = "none"
       THEN \* form is null: form.id throws
            UNCHANGED <<reformatFormId, submitButtonName, reformatFilename,
                        reformatTranscript, iframeBody, formContainerDisplay, modalVars>>
       ELSE /\ UNCHANGED <<reformatFormId, submitButtonName>>
            /\ IF ~data.ok
               THEN \* data.context is undefined
                    UNCHANGED <<reformatFilename, reformatTranscript, iframeBody,
                                formContainerDisplay, modalVars>>
               ELSE /\ reformatFilename' = data.filename
                    /\ reformatTranscript' = data.transcript
                    /\ IF ~iframePresent
                       THEN \* iframe is null: iframe.contentDocument throws
                            UNCHANGED <<iframeBody, formContainerDisplay, modalVars>>
                       ELSE /\ iframeBody' = data.formatted_text
                            /\ formContainerDisplay' = "block"
                            /\ closeModal
    /\ UNCHANGED <<pageVars, primaryVars, stopOutVars, chatVars, chatInput,
                   editorVars, loadingOverlayDisplay>>

\* fetchTranscription: the then callback with the parsed body; a TypeError
\* thrown on the way ends it there and is logged by the catch
TranscribeApplied(i, data) ==
    /\ Settle(i, "transcribe")
    /\ noTranscriptionMessageDisplay' = "none"
    /\ IF reformatFormId = "none"
       THEN \* form is null: form.id throws
            UNCHANGED <<reformatFormId, submitButtonName, reformatFilename,
                        reformatTranscript, iframeBody, formContainerDisplay, modalVars>>
       ELSE /\ reformatFormId' = "reformat"
            /\ submitButtonName' = "reformat"
            /\ IF ~data.ok
               THEN \* data.context is undefined
                    UNCHANGED <<reformatFilename, reformatTranscript, iframeBody,
                                formContainerDisplay, modalVars>>
               ELSE /\ reformatFilename' = data.filename
                    /\ reformatTranscript' = data.transcript
                    /\ IF ~iframePresent
                       THEN \* iframe is null: iframe.contentDocument throws
                            UNCHANGED <<iframeBody, formContainerDisplay, modalVars>>
                       ELSE /\ iframeBody' = data.formatted_text
                            /\ formContainerDisplay' = "block"
                            /\ closeModal
    /\ UNCHANGED <<pageVars, primaryVars, stopOutVars, chatVars, chatInput,
                   editorVars, loadingOverlayDisplay>>

\* voiceChatStopBtn.onclick: fetch or response.json() rejects; the catch logs
InstructionFailed(i) ==
    /\ Settle(i, "instruction")
    /\ UNCHANGED <<pageVars, primaryVars, stopOutVars, chatVars, modalVars, formVars,
                   editorVars, loadingOverlayDisplay>>

\* voiceChatStopBtn.onclick: the then callback with the parsed body
InstructionApplied(i, data) ==
    /\ Settle(i, "instruction")
    /\ IF ~data.ok
       THEN \* data.context is undefined
            UNCHANGED <<chatInput, modalVars>>
       ELSE /\ chatInput' = chatInput \o " " \o data.transcript
            /\ closeModal
    /\ UNCHANGED <<pageVars, primaryVars, stopOutVars, chatVars,
                   noTranscriptionMessageDisplay, formContainerDisplay, reformatFormId,
                   submitButtonName, reformatFilename, reformatTranscript, iframeBody,
                   editorVars, loadingOverlayDisplay>>

----------------------------------------------------------------------------
(* recorder.js: note edits *)

EditsInFlight ==
    Cardinality({i \in 1..Len(inflight) : inflight[i].kind \in {"edit_soap", "edit_chat"}})

\* editSoapNote(form) and editSoapNoteWithInstruction(form) up to the fetch,
\* called by each of the listeners the observer callback added: with neither
\* transcript form in the page, reformatForm.filename throws in each call
editRequest(kind, fields, listeners) ==
    IF reformatFormId = "none" \/ listeners = 0
    THEN UNCHANGED <<loadingOverlayDisplay, inflight>>
    ELSE /\ loadingOverlayDisplay' = "flex"
         /\ inflight' = inflight \o
                [j \in 1..listeners |->
                    [kind |-> kind, url |-> <<"url", UpdateSoapUrl>>,
                     body |-> editFormData(fields, reformatFilename, kind)]]

\* a submit event on the edit_soap form: the listener that prevents the
\* default submission (added at page load), then those the observer
\* callback added
SubmitEditSoap(maxSubmits) ==
    /\ EditsInFlight < maxSubmits
    /\ defaultPrevented' = TRUE
    /\ editRequest("edit_soap", << <<"soap", iframeBody>> >>, submitListeners)
    /\ UNCHANGED <<pageVars, primaryVars, stopOutVars, chatVars, modalVars, formVars,
                   editorVars>>

\* a submit event on the edit_chat form
SubmitEditChat(maxSubmits) ==
    /\ EditsInFlight < maxSubmits
    /\ defaultPrevented' = TRUE
    /\ editRequest("edit_chat", << <<"input", chatInput>> >>, submitListeners)
    /\ UNCHANGED <<pageVars, primaryVars, stopOutVars, chatVars, modalVars, formVars,
                   editorVars>>

\* the catch of editSoapNote hiding the loading overlay as well
EditSoapFailedHiding(i) ==
    /\ Settle(i, "edit_soap")
    /\ loadingOverlayDisplay' = "none"
    /\ UNCHANGED <<pageVars, primaryVars, stopOutVars, chatVars, modalVars, formVars,
                   editorVars>>

\* editSoapNote: fetch or response.json() rejects; the catch logs
EditSoapFailed(i) ==
    /\ Settle(i, "edit_soap")
    /\ UNCHANGED <<pageVars, primaryVars, stopOutVars, chatVars, modalVars, formVars,
                   editorVars, loadingOverlayDisplay>>

\* editSoapNote: the then callback; it reads nothing of the parsed body
EditSoapApplied(i) ==
    /\ Settle(i, "edit_soap")
    /\ loadingOverlayDisplay' = "none"
    /\ UNCHANGED <<pageVars, primaryVars, stopOutVars, chatVars, modalVars, formVars,
                   editorVars>>

\* editSoapNoteWithInstruction: fetch or response.json() rejects; the catch logs
EditChatFailed(i) ==
    /\ Settle(i, "edit_chat")
    /\ UNCHANGED <<pageVars, primaryVars, stopOutVars, chatVars, modalVars, formVars,
                   editorVars, loadingOverlayDisplay>>

\* editSoapNoteWithInstruction: the then callback with the parsed body
EditChatApplied(i, data) ==
    /\ Settle(i, "edit_chat")
    /\ IF ~data.ok
       THEN \* data.context is undefined
            UNCHANGED <<iframeBody, chatInput, loadingOverlayDisplay>>
       ELSE /\ iframeBody' = data.formatted_text
            /\ chatInput' = ""
            /\ loadingOverlayDisplay' = "none"
    /\ UNCHANGED <<pageVars, primaryVars, stopOutVars, chatVars, modalVars,
                   noTranscriptionMessageDisplay, formContainerDisplay, reformatFormId,
                   submitButtonName, reformatFilename, reformatTranscript, editorVars>>

----------------------------------------------------------------------------
(* Specifications *)

\* the primary capture session on its own
Next ==
    \/ StartClick(MaxStarts) /\ UNCHANGED auxVars
    \/ StartGranted /\ UNCHANGED auxVars
    \/ StartDenied /\ UNCHANGED auxVars
    \/ \E p \in connected : AudioProcess(p, MaxChunks, EncodeOutputs) /\ UNCHANGED auxVars
    \/ \E t \in activeTimers : TimerTick(t, MaxTicks) /\ UNCHANGED auxVars
    \/ StopClick(FlushOutputs, Dates) /\ UNCHANGED auxVars
    \/ \E target \in {"modal", "other"} : WindowClick(target) /\ UNCHANGED auxVars

Spec == Init /\ [][Next]_vars

\* the chunk buffer of the primary session
NextBuffer ==
    \/ StartClick(BufStarts) /\ UNCHANGED auxVars
    \/ StartGranted /\ UNCHANGED auxVars
    \/ StartDenied /\ UNCHANGED auxVars
    \/ \E p \in connected : AudioProcess(p, BufChunks, EncodeOutputs) /\ UNCHANGED auxVars
    \/ StopClick(FlushOutputs, PageDates) /\ UNCHANGED auxVars

SpecBuffer == InitOne /\ [][NextBuffer]_vars

\* the elapsed-time counter of the primary session
NextTimer ==
    \/ StartClick(TimerStarts) /\ UNCHANGED auxVars
    \/ StartGranted /\ UNCHANGED auxVars
    \/ StartDenied /\ UNCHANGED auxVars
    \/ \E t \in activeTimers : TimerTick(t, TimerTicks) /\ UNCHANGED auxVars
    \/ StopClick(PageFlushOutputs, PageDates) /\ UNCHANGED auxVars

SpecTimer == InitOne /\ [][NextTimer]_vars

\* the two capture sessions side by side
NextCapture ==
    \/ StartClick(BothStarts) /\ UNCHANGED auxVars
    \/ StartGranted /\ UNCHANGED auxVars
    \/ StartDenied /\ UNCHANGED auxVars
    \/ \E p \in connected : AudioProcess(p, BothChunks, PageEncodeOutputs) /\ UNCHANGED auxVars
    \/ \E t \in activeTimers : TimerTick(t, BothTicks) /\ UNCHANGED auxVars
    \/ StopClick(PageFlushOutputs, PageDates) /\ UNCHANGED auxVars
    \/ ChatStartClick(BothStarts) /\ UNCHANGED auxVars
    \/ ChatStartGranted /\ UNCHANGED auxVars
    \/ ChatStartDenied /\ UNCHANGED auxVars
    \/ \E p \in chatConnected : ChatAudioProcess(p, BothChunks, PageEncodeOutputs) /\ UNCHANGED auxVars
    \/ ChatStopClick(PageFlushOutputs) /\ UNCHANGED auxVars

SpecCapture == InitOne /\ [][NextCapture]_vars

\* the exchanges with the server: both stop handlers, the note edits and the
\* continuations of their requests
NextPage ==
    \/ SubmitEditSoap(PageSubmits) /\ UNCHANGED traceVars
    \/ SubmitEditChat(PageSubmits) /\ UNCHANGED traceVars
    \/ StartClick(PageStarts) /\ UNCHANGED auxVars
    \/ StartGranted /\ UNCHANGED auxVars
    \/ StartDenied /\ UNCHANGED auxVars
    \/ StopClick(PageFlushOutputs, PageDates) /\ UNCHANGED auxVars
    \/ ChatStartClick(PageStarts) /\ UNCHANGED auxVars
    \/ ChatStartGranted /\ UNCHANGED auxVars
    \/ ChatStartDenied /\ UNCHANGED auxVars
    \/ ChatStopClick(PageFlushOutputs) /\ UNCHANGED auxVars
    \/ \E target \in {"modal", "other"} : WindowClick(target) /\ UNCHANGED auxVars
    \/ IframeInserted /\ UNCHANGED auxVars
    \/ \E i \in 1..Len(inflight) : TranscribeFailed(i) /\ UNCHANGED auxVars
    \/ \E i \in 1..Len(inflight), data \in NoteResponses : TranscribeApplied(i, data) /\ UNCHANGED auxVars
    \/ \E i \in 1..Len(inflight) : InstructionFailed(i) /\ UNCHANGED auxVars
    \/ \E i \in 1..Len(inflight), data \in InstructionResponses : InstructionApplied(i, data) /\ UNCHANGED auxVars
    \/ \E i \in 1..Len(inflight) : EditSoapFailed(i) /\ UNCHANGED auxVars
    \/ \E i \in 1..Len(inflight) : EditSoapApplied(i) /\ UNCHANGED auxVars
    \/ \E i \in 1..Len(inflight) : EditChatFailed(i) /\ UNCHANGED auxVars
    \/ \E i \in 1..Len(inflight), data \in NoteResponses : EditChatApplied(i, data) /\ UNCHANGED auxVars

SpecPage == InitPage /\ [][NextPage]_vars

\* the origin of the chunks: the block of script processor p encodes to one
\* byte, p, so that the artifact shows which processors fed it
NextMix ==
    \/ StartClick(MixStarts) /\ UNCHANGED auxVars
    \/ StartGranted /\ UNCHANGED auxVars
    \/ StartDenied /\ UNCHANGED auxVars
    \/ \E p \in connected : AudioProcess(p, MixChunks, { <<p>> }) /\ UNCHANGED auxVars
    \/ StopClick(PageFlushOutputs, Dates) /\ UNCHANGED auxVars

SpecMix == InitOne /\ [][NextMix]_vars

\* the note edits, with the primary session's timer as a source of DOM
\* mutations
NextEdit ==
    \/ SubmitEditSoap(EditSubmits) /\ UNCHANGED traceVars
    \/ SubmitEditChat(EditSubmits) /\ UNCHANGED traceVars
    \/ StartClick(EditStarts) /\ UNCHANGED auxVars
    \/ StartGranted /\ UNCHANGED auxVars
    \/ StartDenied /\ UNCHANGED auxVars
    \/ \E t \in activeTimers : TimerTick(t, EditTicks) /\ UNCHANGED auxVars
    \/ IframeInserted /\ UNCHANGED auxVars
    \/ \E i \in 1..Len(inflight) : EditSoapFailed(i) /\ UNCHANGED auxVars
    \/ \E i \in 1..Len(inflight) : EditSoapApplied(i) /\ UNCHANGED auxVars
    \/ \E i \in 1..Len(inflight) : EditChatFailed(i) /\ UNCHANGED auxVars
    \/ \E i \in 1..Len(inflight), data \in NoteResponses : EditChatApplied(i, data) /\ UNCHANGED auxVars

SpecEdit == InitPage /\ [][NextEdit]_vars

\* the modal controller: the global functions of modal.js called by any script
\* of the page, and clicks; each call or click is one task and is kept in the
\* trace
ModalEvent(op, arg) == [op |-> op, arg |-> arg]

ModalRest ==
    <<pageVars, primaryVars, stopOutVars, chatVars, formVars,
      loadingOverlayDisplay, inflight>>

\* textModal(content); setting textContent changes the child list of the
\* container, which the observer of recorder.js sees
TextModalCall(content) ==
    /\ Len(modalTrace) < MaxModalEvents
    /\ textModal(content)
    /\ Mutation
    /\ modalTrace' = Append(modalTrace, ModalEvent("textModal", content))
    /\ UNCHANGED ModalRest

StaticModalCall ==
    /\ Len(modalTrace) < MaxModalEvents
    /\ staticModal
    /\ modalTrace' = Append(modalTrace, ModalEvent("staticModal", ""))
    /\ UNCHANGED <<ModalRest, editorVars>>

CloseModalCall ==
    /\ Len(modalTrace) < MaxModalEvents
    /\ closeModal
    /\ modalTrace' = Append(modalTrace, ModalEvent("closeModal", ""))
    /\ UNCHANGED <<ModalRest, editorVars>>

ModalClick(target) ==
    /\ Len(modalTrace) < MaxModalEvents
    /\ WindowClick(target)
    /\ modalTrace' = Append(modalTrace, ModalEvent("click", target))

NextModal ==
    \/ \E content \in ModalTexts : TextModalCall(content) /\ UNCHANGED <<pcmVars, defaultPrevented>>
    \/ StaticModalCall /\ UNCHANGED <<pcmVars, defaultPrevented>>
    \/ CloseModalCall /\ UNCHANGED <<pcmVars, defaultPrevented>>
    \/ \E target \in ClickTargets : ModalClick(target) /\ UNCHANGED <<pcmVars, defaultPrevented>>
    \/ IframeInserted /\ UNCHANGED auxVars

SpecModal == InitOne /\ [][NextModal]_vars

\* the sample conversion: the audio callback with the block it is given
Blocks == UNION { [1..n -> Samples] : n \in 0..MaxSamples }

\* the first two statements of onaudioprocess: the block is read and
\* converted; what the encoder makes of the result is AudioProcess
ConvertBlock(block) ==
    /\ input' = block
    /\ int16' = floatTo16BitPCM(block)
    /\ UNCHANGED <<programVars, modalTrace>>

NextPcm == \E block \in Blocks : ConvertBlock(block)

SpecPcm == InitOne /\ [][NextPcm]_vars

----------------------------------------------------------------------------
(* Properties: the capture session *)

IsPrefix(s, t) == Len(s) <= Len(t) /\ SubSeq(t, 1, Len(s)) = s

\* FormData.get(name): the value of the first entry of that name, or null
FormDataGet(fd, name) ==
    LET hits == {i \in 1..Len(fd) : fd[i][1] = name}
    IN  IF hits = {} THEN "null"
        ELSE fd[CHOOSE i \in hits : \A j \in hits : i <= j][2]

\* n in exactly w decimal digits
RECURSIVE FixedDigits(_, _)
FixedDigits(n, w) ==
    IF w = 0 THEN "" ELSE FixedDigits(n \div 10, w - 1) \o Digit(n % 10)

DateDigits(d) == FixedDigits(d.year, 4) \o FixedDigits(d.month + 1, 2) \o FixedDigits(d.date, 2)
TimeDigits(d) == FixedDigits(d.hours, 2) \o FixedDigits(d.minutes, 2) \o FixedDigits(d.seconds, 2)

\* the chunks' bytes, first chunk first
RECURSIVE Flatten(_)
Flatten(chunks) ==
    IF chunks = <<>> THEN <<>>
    ELSE Flatten(SubSeq(chunks, 1, Len(chunks) - 1)) \o chunks[Len(chunks)]

RECURSIVE SumLen(_)
SumLen(chunks) ==
    IF chunks = <<>> THEN 0 ELSE Len(Head(chunks)) + SumLen(Tail(chunks))

\* C1: while the stop control is enabled (between a start and the following
\* stop) every step leaves the chunk buffer mp3Data a prefix of what it
\* becomes, unless a start resets it to empty; and while the stop control
\* stays disabled (the stop handler has run and no start has followed) no
\* step changes the buffer.
C1_BufferAppendOnly ==
    [][ /\ (~stopBtnDisabled /\ ~stopBtnDisabled')
            => (IsPrefix(mp3Data, mp3Data') \/ mp3Data' = <<>>)
        /\ (stopBtnDisabled /\ stopBtnDisabled') => mp3Data' = mp3Data ]_vars

\* C2: the timezone offset is read once (it never changes) and every
\* submission the primary stop handler builds carries, as timezone_offset,
\* the negation of the platform-reported offset.
C2_TimezoneNegated ==
    [][ /\ timezoneOffset' = timezoneOffset
        /\ formData' # formData
            => FormDataGet(formData', "timezone_offset") = String(0 - timezoneOffset) ]_vars

\* C3: once a primary capture has been stopped at local date-time d, the
\* download name is the 15-character YYYYMMDD_HHMMSS of d followed by ".mp3",
\* and the local_datetime hidden field holds the same 14 digits without the
\* underscore.
C3_NamePattern ==
    downloadLink.display = "block" =>
        /\ Len(DateDigits(currentDate) \o "_" \o TimeDigits(currentDate)) = 15
        /\ downloadLink.download
             = DateDigits(currentDate) \o "_" \o TimeDigits(currentDate) \o ".mp3"
        /\ localDatetimeInput = DateDigits(currentDate) \o TimeDigits(currentDate)

\* C4: every run of the primary stop handler sends one request, and the body
\* of that request is the form data the handler built: the artifact as file,
\* the new-recording flag, the local datetime string and the timezone offset.
C4_RequestCarriesFormData ==
    [][ StopClick(FlushOutputs, Dates) =>
          /\ Len(inflight') = Len(inflight) + 1
          /\ inflight'[Len(inflight')].body = formData'
          /\ FormDataGet(formData', "file") = audioPlaybackSrc'
          /\ FormDataGet(formData', "new_file") = "true"
          /\ FormDataGet(formData', "local_datetime") = localDatetimeInput' ]_vars

\* C5: the artifact a stop builds is the bytes of the chunks encodeBuffer
\* returned since the start that reset the buffer, in the order they were
\* produced, followed by the bytes flush returned; its length is the sum of
\* the chunk lengths plus the length of the flush output.
C5_ArtifactIsChunksThenFlush ==
    [][ StopClick(FlushOutputs, PageDates) =>
          \E flush \in FlushOutputs :
              /\ audioPlaybackSrc' = Flatten(encoded) \o flush
              /\ downloadLink'.href = audioPlaybackSrc'
              /\ Len(audioPlaybackSrc') = SumLen(encoded) + Len(flush) ]_vars

\* C5 witness: a stop after two different non-empty chunks and a non-empty flush
C5_Witness ==
    /\ stopBtnDisabled
    /\ encoded = << <<2, 0 - 3>>, <<1>> >>
    /\ audioPlaybackSrc = <<2, 0 - 3, 1, 9>>

\* k seconds as mm:ss, for k below 6000
MinutesSeconds(k) ==
    Digit((k \div 60) \div 10) \o Digit((k \div 60) % 10) \o ":"
        \o Digit((k % 60) \div 10) \o Digit((k % 60) % 10)

\* C6: a stop after k ticks of the elapsed-time counter (k below 6000) leaves
\* the timer display reading "Recording: mm:ss (Stopped)" for k seconds, the
\* start control enabled, the stop control disabled and the download link
\* shown with a name ending in ".mp3".
C6_StoppedDisplay ==
    [][ (StopClick(PageFlushOutputs, PageDates) /\ seconds < 6000) =>
          /\ timerDisplay' = "Recording: " \o MinutesSeconds(seconds) \o " (Stopped)"
          /\ ~startBtnDisabled' /\ stopBtnDisabled'
          /\ downloadLink'.display = "block"
          /\ downloadLink'.download = localDatetimeInput' \o ".mp3" ]_vars

\* C6 witness: stopped after three ticks
C6_Witness ==
    /\ seconds = 3
    /\ timerDisplay = "Recording: 00:03 (Stopped)"
    /\ ~startBtnDisabled /\ stopBtnDisabled
    /\ downloadLink.display = "block"

\* what the user can see of the recorder
UserVisible ==
    <<startBtnDisabled, stopBtnDisabled, timerDisplay, audioPlaybackSrc, downloadLink,
      modalDisplay, modalContent, noTranscriptionMessageDisplay, formContainerDisplay,
      loadingOverlayDisplay, voiceChatStartBtn, voiceChatStopBtn>>

\* C10: when getUserMedia rejects, something the user can see changes, and
\* the session is not started: the start control stays enabled, the stop
\* control stays disabled, no processing callback is registered and no
\* elapsed-time counter is started.
C10_DenialSurfaced ==
    [][ StartDenied =>
          /\ UserVisible' # UserVisible
          /\ ~startBtnDisabled' /\ stopBtnDisabled'
          /\ connected' = connected
          /\ activeTimers' = activeTimers ]_vars

----------------------------------------------------------------------------
(* Properties: the two sessions *)

PrimaryEvent ==
    \/ StartClick(BothStarts)
    \/ StartGranted
    \/ StartDenied
    \/ \E p \in connected : AudioProcess(p, BothChunks, PageEncodeOutputs)
    \/ \E t \in activeTimers : TimerTick(t, BothTicks)
    \/ StopClick(PageFlushOutputs, PageDates)

ChatEvent ==
    \/ ChatStartClick(BothStarts)
    \/ ChatStartGranted
    \/ ChatStartDenied
    \/ \E p \in chatConnected : ChatAudioProcess(p, BothChunks, PageEncodeOutputs)
    \/ ChatStopClick(PageFlushOutputs)

\* C7: every event of the instruction session leaves the primary session's
\* stream, processor, encoder, chunk buffer, control flags and timer
\* unchanged, and every event of the primary session leaves the instruction
\* session's stream, processor, encoder, chunk buffer and control flags
\* unchanged.
C7_SessionsIndependent ==
    [][ /\ ChatEvent => UNCHANGED primaryVars
        /\ PrimaryEvent => UNCHANGED chatVars ]_vars

\* C7 witness: both sessions capturing at once, each with a chunk in its buffer
C7_Witness ==
    /\ ~stopBtnDisabled /\ ~voiceChatStopBtn.disabled
    /\ mp3Data # <<>> /\ chatMp3Data # <<>>

----------------------------------------------------------------------------
(* Properties: the exchanges *)

ModalMessage(kind) ==
    IF kind = "transcribe" THEN WaitTranscription ELSE WaitInstruction

ModalRequestInFlight ==
    \E i \in 1..Len(inflight) : inflight[i].kind \in {"transcribe", "instruction"}

\* a step in which a transcription response has been written into the page
TranscriptionProcessed ==
    \E i \in 1..Len(inflight), d \in NoteResponses :
        /\ d.ok
        /\ inflight[i].kind = "transcribe"
        /\ inflight' = RemoveAt(inflight, i)
        /\ reformatFormId' = "reformat"
        /\ reformatFilename' = d.filename
        /\ reformatTranscript' = d.transcript
        /\ iframeBody' = d.formatted_text

\* a step in which an instruction transcript has been appended to the input
InstructionProcessed ==
    \E i \in 1..Len(inflight), d \in InstructionResponses :
        /\ d.ok
        /\ inflight[i].kind = "instruction"
        /\ inflight' = RemoveAt(inflight, i)
        /\ chatInput' = chatInput \o " " \o d.transcript

\* C8 as stated: the modal is visible in every state in which a request of
\* the primary stop or of the instruction stop is in flight.
C8_ModalVisibleWhileInFlight ==
    ModalRequestInFlight => modalDisplay = "block"

\* C8 as amended: the step that sends the request of a primary or instruction
\* stop leaves the modal visible with that exchange's fixed message, and a
\* step hides the visible modal only if it is a click on the modal element or
\* has written the response of such an exchange into the page.
C8_ModalShownAndHiddenByResponseOrClick ==
    [][ /\ ( /\ Len(inflight') = Len(inflight) + 1
             /\ inflight'[Len(inflight')].kind \in {"transcribe", "instruction"} )
            => /\ modalDisplay' = "block"
               /\ modalContent' = ModalMessage(inflight'[Len(inflight')].kind)
        /\ (modalDisplay = "block" /\ modalDisplay' = "none")
            => \/ WindowClick("modal")
               \/ TranscriptionProcessed
               \/ InstructionProcessed ]_vars

\* C8 witness: a transcription response written into the page, the modal hidden
C8_Witness ==
    /\ modalDisplay = "none"
    /\ modalContent = WaitTranscription
    /\ inflight = <<>>
    /\ reformatFilename = "f1" /\ iframeBody = "<p>n1</p>"

\* the then callback of fetchTranscription throws on this body
TranscribeThrows(d) == reformatFormId = "none" \/ ~d.ok \/ ~iframePresent

\* a step in which an exchange fails: its fetch or its JSON parse rejects, or
\* applying the response throws
ExchangeFailed ==
    \E i \in 1..Len(inflight) :
        \/ TranscribeFailed(i)
        \/ \E d \in NoteResponses : TranscribeThrows(d) /\ TranscribeApplied(i, d)
        \/ InstructionFailed(i)
        \/ \E d \in InstructionResponses : ~d.ok /\ InstructionApplied(i, d)
        \/ EditSoapFailed(i)
        \/ EditChatFailed(i)
        \/ \E d \in NoteResponses : ~d.ok /\ EditChatApplied(i, d)

\* a step in which an exchange that shows the modal succeeds
ModalExchangeSucceeded ==
    \E i \in 1..Len(inflight) :
        \/ \E d \in NoteResponses : ~TranscribeThrows(d) /\ TranscribeApplied(i, d)
        \/ \E d \in InstructionResponses : d.ok /\ InstructionApplied(i, d)

\* a step in which a note edit succeeds
EditExchangeSucceeded ==
    \E i \in 1..Len(inflight) :
        \/ EditSoapApplied(i)
        \/ \E d \in NoteResponses : d.ok /\ EditChatApplied(i, d)

\* C9: a failing exchange changes neither the modal nor the loading overlay
\* and sends no request; the visible modal is hidden only by a click on it or
\* by the success of an exchange that shows it, and the displayed overlay
\* only by the success of a note edit.
C9_FailureLeavesModalAndOverlay ==
    [][ /\ ExchangeFailed
            => /\ UNCHANGED <<modalDisplay, modalContent, loadingOverlayDisplay>>
               /\ Len(inflight') = Len(inflight) - 1
        /\ (modalDisplay = "block" /\ modalDisplay' = "none")
            => (WindowClick("modal") \/ ModalExchangeSucceeded)
        /\ (loadingOverlayDisplay = "flex" /\ loadingOverlayDisplay' = "none")
            => EditExchangeSucceeded ]_vars

\* C9 witness: a transcription exchange and a note edit have both failed;
\* nothing is in flight, the modal and the overlay are still up
C9_Witness ==
    /\ inflight = <<>>
    /\ modalDisplay = "block"
    /\ loadingOverlayDisplay = "flex"

----------------------------------------------------------------------------
(* Properties: the modal controller *)

\* C11: from any state, textModal(x) followed by closeModal() leaves the
\* modal hidden, and closeModal() on a hidden modal completes (it has a
\* successor state) and changes nothing of the page: it is idempotent.
C11_TextThenCloseHidden ==
    [][ CloseModalCall =>
          /\ modalDisplay' = "none"
          /\ (modalDisplay = "none" => UNCHANGED programVars)
          /\ (Len(modalTrace) > 0 /\ modalTrace[Len(modalTrace)].op = "textModal"
                => modalDisplay = "block" /\ modalDisplay' = "none") ]_vars

\* C11 witness: textModal("x") was followed by closeModal() and then by a
\* second closeModal() on the hidden modal
C11_Witness ==
    /\ Len(modalTrace) = 3
    /\ modalTrace[1] = ModalEvent("textModal", "x")
    /\ modalTrace[2].op = "closeModal"
    /\ modalTrace[3].op = "closeModal"
    /\ modalDisplay = "none"

\* the events of the trace that set the display, and those that show the modal
ChangesVisibility(e) ==
    \/ e.op \in {"textModal", "staticModal", "closeModal"}
    \/ e.op = "click" /\ e.arg = "modal"

LastIndex(S) == IF S = {} THEN 0 ELSE CHOOSE i \in S : \A j \in S : j <= i

\* C12: the modal starts hidden; after any sequence of textModal, staticModal,
\* closeModal and window clicks it is visible iff the last event that sets
\* the display was textModal or staticModal (closeModal and a click on the
\* modal element hide it, a click elsewhere changes nothing), and its content
\* is the argument of the last textModal, whatever came after it: nothing
\* is queued.
C12_ModalStateMachine ==
    LET vis == {i \in 1..Len(modalTrace) : ChangesVisibility(modalTrace[i])}
        txt == {i \in 1..Len(modalTrace) : modalTrace[i].op = "textModal"}
    IN  /\ modalDisplay \in {"none", "block"}
        /\ modalDisplay = "block" <=>
              (vis # {} /\ modalTrace[LastIndex(vis)].op \in {"textModal", "staticModal"})
        /\ modalContent = IF txt = {} THEN "" ELSE modalTrace[LastIndex(txt)].arg

\* C12 witness: textModal("x"), a click on the modal element, then
\* staticModal: the modal shows again, still with the text "x"
C12_Witness ==
    /\ modalTrace = << ModalEvent("textModal", "x"), ModalEvent("click", "modal"),
                       ModalEvent("staticModal", "") >>
    /\ modalDisplay = "block"
    /\ modalContent = "x"

----------------------------------------------------------------------------
(* Properties: the sample conversion *)

\* C13: the conversion clamps every sample to [-1, 1] (a sample beyond a
\* limit converts as the limit does); -1 maps to -32768, 0 to 0 and 1 to
\* 32767; a negative sample x converts to x * 32768 and a non-negative one
\* to x * 32767, less the fraction an Int16 element cannot hold; so every
\* output is in -32768..32767 and none is 32768 or its 16-bit wrap; the
\* output is as long as the input.
C13_PcmConversion ==
    /\ Len(int16) = Len(input)
    /\ \A i \in 1..Len(input) :
          LET x == input[i]
              y == int16[i]
              n == x.num
          IN  /\ y \in (0 - 32768)..32767
              /\ x.kind = "num" /\ n = 0 - SampleDen => y = 0 - 32768
              /\ x.kind = "num" /\ n = 0 => y = 0
              /\ x.kind = "num" /\ n = SampleDen => y = 32767
              /\ x.kind = "num" /\ n >= 0 - SampleDen /\ n < 0 =>
                    n * 32768 <= y * SampleDen /\ y * SampleDen < n * 32768 + SampleDen
              /\ x.kind = "num" /\ n >= 0 /\ n <= SampleDen =>
                    n * 32767 - SampleDen < y * SampleDen /\ y * SampleDen <= n * 32767
              /\ x.kind = "num" /\ n > SampleDen => y = 32767
              /\ x.kind = "num" /\ n < 0 - SampleDen => y = 0 - 32768

\* C13 witness: a block holding the sample 1.5 was converted to 32767
C13_Witness ==
    /\ Len(input) = 1
    /\ input[1] = [kind |-> "num", num |-> 98304]
    /\ int16 = <<32767>>

----------------------------------------------------------------------------
(* Properties: the transcript form *)

\* C14: when the then callback of fetchTranscription runs with a successful
\* response and one of the forms 'reformat' and 'reformat_edited' is in the
\* page, afterwards the form has the id 'reformat' (none has
\* 'reformat_edited'), the submit button points at it, its filename and
\* transcript fields hold the response's values and the note body, where the
\* editor has one, holds the response's formatted_text; when neither form
\* is in the page no field and no note body is changed and the modal is left
\* as it was (not closed).
C14_FormIdentityResolved ==
    [][ \A i \in 1..Len(inflight), data \in NoteResponses :
          TranscribeApplied(i, data) /\ data.ok =>
            IF reformatFormId = "none"
            THEN /\ UNCHANGED <<reformatFormId, submitButtonName, reformatFilename,
                                reformatTranscript, iframeBody>>
                 /\ UNCHANGED modalVars
            ELSE /\ reformatFormId' = "reformat"
                 /\ submitButtonName' = "reformat"
                 /\ reformatFilename' = data.filename
                 /\ reformatTranscript' = data.transcript
                 /\ (iframePresent => iframeBody' = data.formatted_text) ]_vars

\* C14 witness: a response was applied: the form is 'reformat', populated,
\* the note body is filled and the modal closed, with no request left
C14_Witness ==
    /\ reformatFormId = "reformat"
    /\ submitButtonName = "reformat"
    /\ reformatFilename = "f1"
    /\ reformatTranscript = "t1"
    /\ iframeBody = "<p>n1</p>"
    /\ modalDisplay = "none"
    /\ inflight = <<>>

----------------------------------------------------------------------------
(* Properties: the note edits *)

\* a submit event on one of the two edit forms
SubmitEvent == SubmitEditSoap(EditSubmits) \/ SubmitEditChat(EditSubmits)

\* C15: on a page that has its transcript form, a submit event on edit_soap
\* or edit_chat sends exactly one request of its kind once the observer has
\* seen the editor iframe, however many DOM mutations there were, and none
\* before; the requests already in flight stay as they are, so a second
\* submit adds a second request next to the first; every submit event has
\* its default submission prevented.
C15_OneRequestPerSubmit ==
    [][ /\ SubmitEvent => defaultPrevented'
        /\ SubmitEvent /\ reformatFormId # "none" =>
              IF iframePresent
              THEN /\ Len(inflight') = Len(inflight) + 1
                   /\ SubSeq(inflight', 1, Len(inflight)) = inflight
                   /\ SubmitEditSoap(EditSubmits) =>
                         inflight'[Len(inflight')].kind = "edit_soap"
                   /\ SubmitEditChat(EditSubmits) =>
                         inflight'[Len(inflight')].kind = "edit_chat"
              ELSE inflight' = inflight ]_vars

\* C15 witness: after a timer tick (a DOM mutation after the iframe was
\* seen), a second submit was made while the first request was in flight
C15_Witness ==
    /\ iframePresent
    /\ seconds > 0
    /\ Len(inflight) = 2
    /\ inflight[1].kind = "edit_soap"
    /\ inflight[2].kind = "edit_chat"
    /\ defaultPrevented

----------------------------------------------------------------------------
(* Properties: the controls *)

\* C16: the page loading with start enabled and stop disabled, in every
\* reachable state exactly one of startBtn and stopBtn is enabled, and while
\* stopBtn is enabled the microphone stream, the script processor and the
\* encoder of the primary session are defined, so that a stop click the
\* controls permit finds every handle it dereferences; the same holds of
\* voiceChatStartBtn, voiceChatStopBtn and the instruction session's handles.
C16_ControlsGuardHandles ==
    /\ startBtnDisabled # stopBtnDisabled
    /\ ~stopBtnDisabled => micStream # 0 /\ scriptProcessor # 0 /\ mp3Encoder # 0
    /\ voiceChatStartBtn.disabled # voiceChatStopBtn.disabled
    /\ ~voiceChatStopBtn.disabled =>
          chatMicStream # 0 /\ chatScriptProcessor # 0 /\ chatMp3Encoder # 0

\* C16 witness: both sessions are recording, both stop controls enabled
C16_Witness ==
    /\ ~stopBtnDisabled /\ startBtnDisabled
    /\ ~voiceChatStopBtn.disabled /\ voiceChatStartBtn.disabled
    /\ micStream # 0 /\ chatMicStream # 0

----------------------------------------------------------------------------
(* Properties: overlapping starts *)

\* C17: at most one interval timer of the primary session is active at any
\* time, and from the stop handler to the next start (stop disabled) no
\* timer tick changes the timer display, also when start was clicked again
\* while an earlier click was awaiting the microphone.
C17_SingleTimer ==
    /\ [](Cardinality(activeTimers) <= 1)
    /\ [][ (\E t \in activeTimers : TimerTick(t, MaxTicks)) /\ stopBtnDisabled =>
             timerDisplay' = timerDisplay ]_vars

\* C18: the artifact a stop builds holds, before the flush, only chunks of
\* the one session that stop finalizes (those of its script processor): none
\* of an earlier session after start, stop, start, stop, and none of another
\* stream's processor when two starts overlapped.
C18_ArtifactOfOneSession ==
    [][ StopClick(PageFlushOutputs, Dates) =>
          \A k \in 1..(Len(audioPlaybackSrc') - 1) :
              audioPlaybackSrc'[k] = scriptProcessor ]_vars

\* C19: in every reachable state, while at least one note-edit request
\* (direct or instruction-guided) is in flight the editor's loading overlay
\* is displayed; the success of one of two overlapping requests does not
\* hide it while the other is in flight.
C19_OverlayWhileEditInFlight ==
    EditsInFlight > 0 => loadingOverlayDisplay = "flex"

====
